---- MODULE Spec2Model ----
(***************************************************************************)
(* Model of proxy.go: a localhost HTTP gateway with three endpoints        *)
(* (/open, /test, /style) guarded by a shared token.                       *)
(*                                                                         *)
(* Strings that the code inspects (paths, names, globs) are sequences of   *)
(* atoms.  An atom is a separator "/", a dot ".", the suffix ".txt", a     *)
(* glob metacharacter "*" or "[", or a fragment of letters ("sub" is the   *)
(* two atoms "s" and "ub", so that the pattern "s*" matches it).  The     *)
(* path functions below follow Go's path/filepath on a Unix host, where    *)
(* the separator is "/" and a path is absolute iff it starts with it.      *)
(* Strings that the code only compares (token, class, port) are TLA+       *)
(* strings.                                                                *)
(***************************************************************************)
EXTENDS Naturals, Sequences, FiniteSets

SEP == "/"
DOT == "."
Empty == << >>
DotPath == <<DOT>>
DotDot == <<DOT, DOT>>
RootPath == <<SEP>>
TxtExt == <<".txt">>

\* --------------------------------------------------------------- strings

\* strings.HasSuffix(s, suffix)
HasSuffix(s, suffix) ==
    /\ Len(s) >= Len(suffix)
    /\ SubSeq(s, Len(s) - Len(suffix) + 1, Len(s)) = suffix

\* The components of a path: the pieces between separators, empty pieces kept.
RECURSIVE Components(_)
Components(s) ==
    IF \A i \in 1..Len(s) : s[i] # SEP
    THEN <<s>>
    ELSE LET k == CHOOSE i \in 1..Len(s) :
                      s[i] = SEP /\ \A j \in 1..(i - 1) : s[j] # SEP
         IN <<SubSeq(s, 1, k - 1)>> \o Components(SubSeq(s, k + 1, Len(s)))

\* Components joined with the separator.
RECURSIVE JoinComponents(_)
JoinComponents(cs) ==
    IF cs = << >> THEN << >>
    ELSE IF Len(cs) = 1 THEN cs[1]
    ELSE cs[1] \o <<SEP>> \o JoinComponents(Tail(cs))

\* filepath.IsAbs on Unix: the path starts with the separator.
IsAbs(path) == Len(path) > 0 /\ path[1] = SEP

\* The loop of filepath.Clean over the components: empty and "." components
\* are dropped, ".." removes the component before it, and is kept only in a
\* relative path with nothing left to remove.
RECURSIVE CleanStack(_, _, _)
CleanStack(cs, out, rooted) ==
    IF cs = << >> THEN out
    ELSE LET c == Head(cs)
             rest == Tail(cs)
         IN IF c = Empty \/ c = DotPath THEN CleanStack(rest, out, rooted)
            ELSE IF c = DotDot
            THEN IF out # << >> /\ out[Len(out)] # DotDot
                 THEN CleanStack(rest, SubSeq(out, 1, Len(out) - 1), rooted)
                 ELSE IF rooted THEN CleanStack(rest, out, rooted)
                 ELSE CleanStack(rest, Append(out, c), rooted)
            ELSE CleanStack(rest, Append(out, c), rooted)

\* filepath.Clean
Clean(path) ==
    IF path = Empty THEN DotPath
    ELSE LET rooted == IsAbs(path)
             body == JoinComponents(CleanStack(Components(path), << >>, rooted))
         IN IF rooted THEN <<SEP>> \o body
            ELSE IF body = Empty THEN DotPath ELSE body

\* filepath.Join of two elements: empty elements are ignored, the rest are
\* joined with the separator and the result is cleaned.
Join(a, b) ==
    IF a = Empty /\ b = Empty THEN Empty
    ELSE IF a = Empty THEN Clean(b)
    ELSE IF b = Empty THEN Clean(a)
    ELSE Clean(a \o <<SEP>> \o b)

\* A string with its trailing separators removed.
RECURSIVE StripTrailingSep(_)
StripTrailingSep(s) ==
    IF Len(s) > 0 /\ s[Len(s)] = SEP
    THEN StripTrailingSep(SubSeq(s, 1, Len(s) - 1))
    ELSE s

\* filepath.Base: the last element of the path.
Base(path) ==
    IF path = Empty THEN DotPath
    ELSE LET p == StripTrailingSep(path)
         IN IF p = Empty THEN RootPath
            ELSE LET cs == Components(p) IN cs[Len(cs)]

\* filepath.Dir of a cleaned absolute path.
Dir(path) == Join(path, DotDot)

\* ------------------------------------------------------------ file system

\* The host's directories and regular files, as cleaned absolute paths.
\*   /            /etc            /b            /b/sub        /b/docs
\*   /b/s*        /b/sub/a.txt    /b/sub/ab     /b/docs/a.txt /b/f.txt
Dirs ==
    { <<SEP>>,
      <<SEP, "etc">>,
      <<SEP, "b">>,
      <<SEP, "b", SEP, "s", "ub">>,
      <<SEP, "b", SEP, "docs">>,
      <<SEP, "b", SEP, "s", "*">> }

Files ==
    { <<SEP, "b", SEP, "s", "ub", SEP, "a", ".txt">>,
      <<SEP, "b", SEP, "s", "ub", SEP, "a", "b">>,
      <<SEP, "b", SEP, "docs", SEP, "a", ".txt">>,
      <<SEP, "b", SEP, "f", ".txt">> }

\* The working directory of the process.
Cwd == <<SEP>>

\* os.Stat / os.Lstat: what is at the path (there are no symbolic links).
Stat(path) ==
    IF path \in Dirs THEN "dir"
    ELSE IF path \in Files THEN "file"
    ELSE "none"

\* The names of the entries of a directory.
ReadDirNames(dir) ==
    { Base(p) : p \in { q \in (Dirs \cup Files) : q # dir /\ Dir(q) = dir } }

\* filepath.Abs: a relative path is joined onto the working directory.
Abs(path) == IF IsAbs(path) THEN Clean(path) ELSE Join(Cwd, path)

\* ------------------------------------------------------------------ glob

\* hasMeta: the pattern holds a glob metacharacter.
HasMeta(pattern) == \E i \in 1..Len(pattern) : pattern[i] \in {"*", "["}

\* A pattern is malformed when a character class is opened and never closed;
\* no atom closes one.
BadPattern(pattern) == \E i \in 1..Len(pattern) : pattern[i] = "["

\* filepath.Match of a well-formed pattern: "*" matches any run of
\* non-separator atoms, every other atom matches itself.
RECURSIVE Match(_, _)
Match(pattern, name) ==
    IF pattern = << >> THEN name = << >>
    ELSE IF Head(pattern) = "*"
    THEN \E k \in 0..Len(name) :
            /\ \A i \in 1..k : name[i] # SEP
            /\ Match(Tail(pattern), SubSeq(name, k + 1, Len(name)))
    ELSE /\ name # << >>
         /\ Head(name) = Head(pattern)
         /\ Match(Tail(pattern), Tail(name))

\* filepath.Split: the directory part, up to and with the last separator,
\* and the file part after it.
SplitDir(path) ==
    LET cs == Components(path)
    IN IF Len(cs) = 1 THEN Empty
       ELSE JoinComponents(SubSeq(cs, 1, Len(cs) - 1)) \o <<SEP>>

SplitFile(path) == LET cs == Components(path) IN cs[Len(cs)]

\* cleanGlobPath: the directory part made ready for globbing.
CleanGlobPath(dir) ==
    IF dir = Empty THEN DotPath
    ELSE IF dir = RootPath THEN dir
    ELSE SubSeq(dir, 1, Len(dir) - 1)

\* glob: the entries of one directory whose names match the file pattern.
\* A directory that cannot be read gives nothing.
GlobDir(dir, file) ==
    IF Stat(dir) # "dir" THEN {}
    ELSE { Join(dir, n) : n \in { m \in ReadDirNames(dir) : Match(file, m) } }

\* The matches of filepath.Glob for a well-formed pattern.
RECURSIVE GlobMatches(_)
GlobMatches(pattern) ==
    IF ~HasMeta(pattern)
    THEN IF Stat(pattern) = "none" THEN {} ELSE {pattern}
    ELSE LET dir == CleanGlobPath(SplitDir(pattern))
             file == SplitFile(pattern)
         IN IF ~HasMeta(dir) THEN GlobDir(dir, file)
            ELSE UNION { GlobDir(d, file) : d \in GlobMatches(dir) }

\* filepath.Glob: the only error is a malformed pattern.
Glob(pattern) ==
    IF BadPattern(pattern)
    THEN [err |-> TRUE, files |-> {}]
    ELSE [err |-> FALSE, files |-> GlobMatches(pattern)]

\* HasFileWithPrefixExceptExt without the test of the excluded suffix.
HasFileWithPrefixAnyExt(dir, prefix, excludeExt) ==
    LET res == Glob(Join(dir, prefix))
    IN IF res.err
       THEN [ok |-> FALSE, err |-> TRUE]
       ELSE [ok |-> res.files # {}, err |-> FALSE]

\* HasFileWithPrefixExceptExt(dir, prefix, excludeExt)
HasFileWithPrefixExceptExt(dir, prefix, excludeExt) ==
    LET pattern == Join(dir, prefix)
        res == Glob(pattern)
    IN IF res.err
       THEN [ok |-> FALSE, err |-> TRUE]
       ELSE [ok |-> \E f \in res.files : ~HasSuffix(f, excludeExt),
             err |-> FALSE]

\* ----------------------------------------------------------------- state

\* The goroutines net/http serves requests on.
Handlers == {"h1", "h2"}

\* Child processes the host lets the server have at once; a spawn beyond it
\* fails.
MaxChildren == 2

VARIABLES
    phase,      \* "boot", "ready", "listening" or "exited": where main is
    basePath,   \* the global basePath
    port,       \* the global port
    token,      \* the global token
    req,        \* per handler: the request it serves, its locals and response
    running     \* the number of launched child processes still alive

vars == <<phase, basePath, port, token, req, running>>

\* The -base values a run may start with: relative, absolute, a regular
\* file, a missing path.
BaseFlags ==
    { <<"b">>,
      <<SEP, "b", SEP>>,
      <<SEP, "b", SEP, "f", ".txt">>,
      <<SEP, "nope">> }

\* The -token values a run may start with.
Tokens == {"", "secret"}

\* The ?token= values of a request.
GivenTokens == {"", "secret"}

\* The ?name= values of a request.
Names ==
    { Empty,                              \* missing
      <<"s", "ub">>,                      \* a directory under the base
      <<"docs">>,                         \* a directory under the base
      <<"s", "*">>,                       \* a directory named with a metacharacter
      <<"nope">>,                         \* nothing there
      <<"f", ".txt">>,                    \* a regular file
      <<SEP, "s", "ub">>,                 \* absolute, a directory once joined
      <<SEP, "nope">>,                    \* absolute, nothing there once joined
      <<DOT, SEP, "s", "ub", SEP, DOT, DOT, SEP>>,  \* cleans to ".": the base
      <<DOT, DOT, SEP, "etc">> }          \* climbs above the base

\* The ?glob= values of a request.
Globs ==
    { Empty,
      <<"x", SEP, "a", "*">>,
      <<"[">>,
      <<DOT>> }

\* The ?class= values of a request.
Classes == {"", "foo"}

\* A handler with no request.
Idle ==
    [ ep |-> "", name |-> Empty, glob |-> Empty, class |-> "",
      givenToken |-> "", pc |-> "idle", cleanName |-> Empty,
      fullPath |-> Empty, status |-> 0, ctype |-> "", tpl |-> "",
      fill |-> "", label |-> Empty, msg |-> "", ops |-> << >>,
      writes |-> 0, child |-> "none" ]

Init ==
    /\ phase = "boot"
    /\ basePath \in BaseFlags
    /\ port = "4455"
    /\ token \in Tokens
    /\ req = [h \in Handlers |-> Idle]
    /\ running = 0

\* --------------------------------------------------------------- startup

\* The base check without its IsDir test: any existing path passes.
BaseExists(path) == Stat(path) # "none"

\* The base directory check of main: the path exists and is a directory.
BaseIsDir(path) == Stat(path) = "dir"

\* main up to the handlers: the base path is made absolute and checked; the
\* process exits when it is no directory.
Startup ==
    /\ phase = "boot"
    /\ basePath' = Abs(basePath)
    /\ phase' = IF BaseIsDir(Abs(basePath)) THEN "ready" ELSE "exited"
    /\ UNCHANGED <<port, token, req, running>>

\* http.ListenAndServe: the listener starts, or fails and the process exits.
Listen ==
    /\ phase = "ready"
    /\ \E bound \in BOOLEAN :
          phase' = IF bound THEN "listening" ELSE "exited"
    /\ UNCHANGED <<basePath, port, token, req, running>>

\* -------------------------------------------------------------- responses

\* http.Error: a plain-text error response.
HttpError(r, code, text) ==
    [r EXCEPT !.pc = "done", !.status = code, !.ctype = "text/plain",
              !.tpl = "error", !.msg = text, !.writes = @ + 1]

\* The badge of svgTpl: a filled square with a text label.
Badge(r, colour) ==
    [r EXCEPT !.pc = "done", !.status = 200, !.ctype = "image/svg+xml",
              !.tpl = "svgTpl", !.fill = colour, !.label = r.glob,
              !.writes = @ + 1]

\* The fixed green badge: a filled square and no text element.
FixedBadge(r) ==
    [r EXCEPT !.pc = "done", !.status = 200, !.ctype = "image/svg+xml",
              !.tpl = "svgFixed", !.fill = "green", !.writes = @ + 1]

\* The style rule of cssTpl for the class.
StyleRule(r) ==
    [r EXCEPT !.pc = "done", !.status = 200, !.ctype = "text/css",
              !.tpl = "cssTpl", !.msg = r.class, !.writes = @ + 1]

\* w.WriteHeader(http.StatusNoContent)
NoContent(r) ==
    [r EXCEPT !.pc = "done", !.status = 204, !.writes = @ + 1]

\* No token check at all.
TokenOkAlways(configured, given) == TRUE

\* The token check: a configured token must equal the given one.
TokenOk(configured, given) == ~(configured # "" /\ configured # given)

\* /open without the absolute-name check.
OpenValidateNoAbs(name, configured, given) ==
    IF name = Empty THEN "Missing ?name= parameter"
    ELSE IF configured # "" /\ configured # given THEN "Invalid Token"
    ELSE ""

\* /open with the token check moved in front of the missing-name check.
OpenValidateTokenFirst(name, configured, given) ==
    IF configured # "" /\ configured # given THEN "Invalid Token"
    ELSE IF name = Empty THEN "Missing ?name= parameter"
    ELSE IF IsAbs(name) THEN "Invalid folder/file name"
    ELSE ""

\* The checks of /open before the file system is touched, in order; the
\* text of the first that fails, or "" when all pass.
OpenValidate(name, configured, given) ==
    IF name = Empty THEN "Missing ?name= parameter"
    ELSE IF ~TokenOk(configured, given) THEN "Invalid Token"
    ELSE IF IsAbs(name) THEN "Invalid folder/file name"
    ELSE ""

\* The checks of /test before the file system is touched.
TestValidate(name, configured, given) ==
    IF name = Empty THEN "Missing ?name= parameter"
    ELSE IF ~TokenOk(configured, given) THEN "Invalid Token"
    ELSE IF IsAbs(name) THEN "Invalid folder/file name"
    ELSE ""

\* The checks of /style.
StyleValidate(class, configured, given) ==
    IF class = "" THEN "Missing ?class= parameter"
    ELSE IF ~TokenOk(configured, given) THEN "Invalid Token"
    ELSE ""

\* -------------------------------------------------------------- handlers
\* Each handler is cut in front of its system calls: os.Stat, filepath.Glob
\* and the spawn of openPath.  A step is a function of the handler's locals
\* and of the configuration globals it reads.

\* runtime.GOOS of the build.
GOOS == "linux"

\* The switch of openPath: the program started for the host system.
OpenCommand(goos) ==
    IF goos = "windows" THEN "explorer"
    ELSE IF goos = "darwin" THEN "open"
    ELSE "xdg-open"

\* openPath ending with cmd.Run(), which waits for the program to end.
AwaitsChildRun == TRUE

\* openPath ends with cmd.Start(), which does not wait for the program.
AwaitsChild == FALSE

\* /open answers Not Found unless the path is an existing directory.
OpenNotFound(kind) == kind # "dir"

\* The stat test of /test inverted.
TestStatSucceeds(kind) == kind # "none"

\* /test paints the badge red when os.Stat fails.
TestStatFails(kind) == kind = "none"

\* /open, the query parameters, the checks before the file system, and the
\* cleaned name joined onto the base.
OpenBeginR(r, configured, base) ==
    LET text == OpenValidate(r.name, configured, r.givenToken)
    IN IF text # "" THEN HttpError(r, 400, text)
       ELSE [r EXCEPT !.pc = "stat", !.cleanName = Clean(r.name),
                      !.fullPath = Join(base, Clean(r.name))]

\* /open, os.Stat of the joined path.
OpenStatR(r) ==
    LET r1 == [r EXCEPT !.ops = Append(@, <<"stat", r.fullPath>>)]
    IN IF OpenNotFound(Stat(r.fullPath)) THEN HttpError(r1, 404, "Not Found")
       ELSE [r1 EXCEPT !.pc = "launch"]

\* /open handing the cleaned name, not the joined path, to openPath.
OpenLaunchCleanName(r, started) ==
    LET r1 == [r EXCEPT !.ops = Append(@, <<OpenCommand(GOOS), r.cleanName>>)]
    IN IF ~started THEN HttpError(r1, 500, "Failed to open")
       ELSE NoContent([r1 EXCEPT !.child = "running"])

\* /open, openPath and the response; started tells whether the spawn worked.
OpenLaunchR(r, started) ==
    LET r1 == [r EXCEPT !.ops = Append(@, <<OpenCommand(GOOS), r.fullPath>>)]
    IN IF ~started THEN HttpError(r1, 500, "Failed to open")
       ELSE IF AwaitsChild THEN [r1 EXCEPT !.pc = "wait", !.child = "running"]
       ELSE NoContent([r1 EXCEPT !.child = "running"])

\* /test, the query parameters, the checks before the file system, and the
\* cleaned name joined onto the base.
TestBeginR(r, configured, base) ==
    LET text == TestValidate(r.name, configured, r.givenToken)
    IN IF text # "" THEN HttpError(r, 400, text)
       ELSE [r EXCEPT !.pc = "stat", !.cleanName = Clean(r.name),
                      !.fullPath = Join(base, Clean(r.name))]

\* /test, os.Stat of the joined path, and the badges that need no glob.
TestStatR(r) ==
    LET r1 == [r EXCEPT !.ops = Append(@, <<"stat", r.fullPath>>)]
    IN IF TestStatFails(Stat(r.fullPath)) THEN Badge(r1, "red")
       ELSE IF r.glob = Empty THEN FixedBadge(r1)
       ELSE [r1 EXCEPT !.pc = "glob"]

\* /test, the glob and its badge.
TestGlobR(r) ==
    LET globBase == Base(r.glob)
        res == HasFileWithPrefixExceptExt(r.fullPath, globBase, TxtExt)
        r1 == [r EXCEPT !.ops = Append(@, <<"glob", Join(r.fullPath, globBase)>>)]
    IN IF res.err THEN HttpError(r1, 400, "Bad Glob")
       ELSE IF res.ok THEN Badge(r1, "green")
       ELSE Badge(r1, "orange")

\* /style, whole.
StyleR(r, configured) ==
    LET text == StyleValidate(r.class, configured, r.givenToken)
    IN IF text # "" THEN HttpError(r, 400, text)
       ELSE StyleRule(r)

\* A handler step that assigns the joined path to the global basePath
\* rather than to its local.
HandlerConfigShadow(h) ==
    /\ basePath' = IF req[h].pc = "stat" THEN req[h].fullPath ELSE basePath
    /\ UNCHANGED <<port, token>>

\* What a handler step writes to the configuration globals: nothing.
HandlerConfig(h) == UNCHANGED <<basePath, port, token>>

OpenBegin(h) ==
    /\ phase = "listening"
    /\ req[h].pc = "idle"
    /\ \E name \in Names, given \in GivenTokens :
          req' = [req EXCEPT ![h] =
                    OpenBeginR([Idle EXCEPT !.ep = "open", !.name = name,
                                            !.givenToken = given],
                               token, basePath)]
    /\ HandlerConfig(h)
    /\ UNCHANGED <<phase, running>>

OpenStat(h) ==
    /\ req[h].ep = "open"
    /\ req[h].pc = "stat"
    /\ req' = [req EXCEPT ![h] = OpenStatR(req[h])]
    /\ HandlerConfig(h)
    /\ UNCHANGED <<phase, running>>

\* The spawn may fail (no such program, no room for a process); it fails
\* when the host has no room left.
OpenLaunch(h) ==
    /\ req[h].ep = "open"
    /\ req[h].pc = "launch"
    /\ \E started \in BOOLEAN :
          /\ started => running < MaxChildren
          /\ req' = [req EXCEPT ![h] = OpenLaunchR(req[h], started)]
          /\ running' = IF started THEN running + 1 ELSE running
    /\ HandlerConfig(h)
    /\ UNCHANGED phase

TestBegin(h) ==
    /\ phase = "listening"
    /\ req[h].pc = "idle"
    /\ \E name \in Names, glob \in Globs, given \in GivenTokens :
          req' = [req EXCEPT ![h] =
                    TestBeginR([Idle EXCEPT !.ep = "test", !.name = name,
                                            !.glob = glob,
                                            !.givenToken = given],
                               token, basePath)]
    /\ HandlerConfig(h)
    /\ UNCHANGED <<phase, running>>

TestStat(h) ==
    /\ req[h].ep = "test"
    /\ req[h].pc = "stat"
    /\ req' = [req EXCEPT ![h] = TestStatR(req[h])]
    /\ HandlerConfig(h)
    /\ UNCHANGED <<phase, running>>

TestGlob(h) ==
    /\ req[h].ep = "test"
    /\ req[h].pc = "glob"
    /\ req' = [req EXCEPT ![h] = TestGlobR(req[h])]
    /\ HandlerConfig(h)
    /\ UNCHANGED <<phase, running>>

Style(h) ==
    /\ phase = "listening"
    /\ req[h].pc = "idle"
    /\ \E class \in Classes, given \in GivenTokens :
          req' = [req EXCEPT ![h] =
                    StyleR([Idle EXCEPT !.ep = "style", !.class = class,
                                        !.givenToken = given], token)]
    /\ HandlerConfig(h)
    /\ UNCHANGED <<phase, running>>

\* The handler has returned and its goroutine is free for the next request.
\* A child it started stays alive on its own.
Finish(h) ==
    /\ req[h].pc = "done"
    /\ req' = [req EXCEPT ![h] = Idle]
    /\ UNCHANGED <<phase, basePath, port, token, running>>

\* The program a handler started exits or crashes.  Nothing in the server
\* reads how it ended, unless the launch waits for it.
ChildEnd(h) ==
    /\ req[h].child = "running"
    /\ \E how \in {"exited", "crashed"} :
          LET r1 == [req[h] EXCEPT !.child = how]
          IN req' = [req EXCEPT ![h] =
                       IF req[h].pc # "wait" THEN r1
                       ELSE IF how = "exited" THEN NoContent(r1)
                       ELSE HttpError(r1, 500, "Failed to open")]
    /\ running' = running - 1
    /\ UNCHANGED <<phase, basePath, port, token>>

\* A program started by a request whose handler has long returned ends.
DetachedEnd ==
    /\ running > Cardinality({h \in Handlers : req[h].child = "running"})
    /\ running' = running - 1
    /\ UNCHANGED <<phase, basePath, port, token, req>>

Next ==
    \/ Startup
    \/ Listen
    \/ \E h \in Handlers : OpenBegin(h)
    \/ \E h \in Handlers : OpenStat(h)
    \/ \E h \in Handlers : OpenLaunch(h)
    \/ \E h \in Handlers : TestBegin(h)
    \/ \E h \in Handlers : TestStat(h)
    \/ \E h \in Handlers : TestGlob(h)
    \/ \E h \in Handlers : Style(h)
    \/ \E h \in Handlers : Finish(h)
    \/ \E h \in Handlers : ChildEnd(h)
    \/ DetachedEnd

Spec == Init /\ [][Next]_vars

\* The server when every request is for /open.
OpenNext ==
    \/ Startup
    \/ Listen
    \/ \E h \in Handlers : OpenBegin(h)
    \/ \E h \in Handlers : OpenStat(h)
    \/ \E h \in Handlers : OpenLaunch(h)
    \/ \E h \in Handlers : Finish(h)
    \/ \E h \in Handlers : ChildEnd(h)
    \/ DetachedEnd

\* The Go scheduler runs every goroutine that can run, and os.Stat and the
\* spawn return: a handler of /open that has a step left takes it.  Nothing
\* makes a launched program end.
OpenStep(h) == OpenStat(h) \/ OpenLaunch(h)

FairOpenSpec ==
    Init /\ [][OpenNext]_vars /\ \A h \in Handlers : WF_vars(OpenStep(h))

\* ---------------------------------------------------------------- claims

Active(h) == req[h].pc # "idle"
Answered(h) == req[h].pc = "done"

\* The configured token is set and the request's token differs from it.
BadToken(h) == token # "" /\ req[h].givenToken # token

\* The request's name is one the handler resolves: present and relative.
Relative(h) == req[h].name # Empty /\ ~IsAbs(req[h].name)

\* The path the request's name resolves to: cleaned and joined onto the base.
Resolved(h) == Join(basePath, Clean(req[h].name))

\* The path is the base directory or lies below it.
UnderBase(path) ==
    \/ path = basePath
    \/ /\ Len(path) > Len(basePath)
       /\ SubSeq(path, 1, Len(basePath) + 1) = basePath \o <<SEP>>

\* The operations of a request that launched a program.
Launches(h) ==
    { i \in 1..Len(req[h].ops) : req[h].ops[i][1] \notin {"stat", "glob"} }

\* What the client receives.
Response(r) == <<r.status, r.ctype, r.tpl, r.fill, r.label, r.msg>>

\* C1: a request whose token differs from a configured, non-empty token is
\* answered 400 by every endpoint, whatever its other parameters, and has
\* touched neither the file system nor the process table.
C1_TokenMismatchRejected ==
    \A h \in Handlers :
        (Active(h) /\ BadToken(h)) =>
            /\ Answered(h)
            /\ req[h].status = 400
            /\ req[h].ops = << >>
            /\ req[h].child = "none"

\* A request for an existing directory with the wrong token has been refused.
C1_Witness ==
    \E h \in Handlers :
        /\ req[h].ep = "open"
        /\ BadToken(h)
        /\ req[h].name = <<"s", "ub">>
        /\ req[h].msg = "Invalid Token"

\* C2: every path handed to stat, glob or the launcher is the base directory
\* or a descendant of it.
C2_PathsContained ==
    \A h \in Handlers :
        \A i \in 1..Len(req[h].ops) : UnderBase(req[h].ops[i][2])

\* C3: an absolute name is answered 400 by /open and /test whatever the
\* tokens and whatever is on disk, with no stat and no launch.
C3_AbsoluteNameRejected ==
    \A h \in Handlers :
        (req[h].ep \in {"open", "test"} /\ IsAbs(req[h].name)) =>
            /\ Answered(h)
            /\ req[h].status = 400
            /\ req[h].ops = << >>
            /\ req[h].child = "none"

\* An absolute name that would join to an existing directory, sent with a
\* token that passes, has been refused as an invalid name.
C3_Witness ==
    \E h \in Handlers :
        /\ req[h].ep = "open"
        /\ req[h].name = <<SEP, "s", "ub">>
        /\ ~BadToken(h)
        /\ Stat(Resolved(h)) = "dir"
        /\ req[h].msg = "Invalid folder/file name"

\* The case of C4: /open has answered a request with a passing token whose
\* name resolves to an existing directory under the base.
C4_Case(h) ==
    /\ req[h].ep = "open"
    /\ Answered(h)
    /\ ~BadToken(h)
    /\ Relative(h)
    /\ Stat(Resolved(h)) = "dir"
    /\ UnderBase(Resolved(h))

\* C4 as stated: such a request is answered 204 after exactly one launch, of
\* the resolved path.
C4_AlwaysLaunched ==
    \A h \in Handlers :
        C4_Case(h) =>
            /\ req[h].status = 204
            /\ Cardinality(Launches(h)) = 1
            /\ \A i \in Launches(h) : req[h].ops[i][2] = Resolved(h)
            /\ req[h].child # "none"

\* C4 amended: such a request hands the resolved path to the launcher exactly
\* once; it is answered 204 with one program started when the spawn works,
\* and 500 with none started when the spawn fails.
C4_LaunchedOnceOrFailed ==
    \A h \in Handlers :
        C4_Case(h) =>
            /\ Cardinality(Launches(h)) = 1
            /\ \A i \in Launches(h) : req[h].ops[i][2] = Resolved(h)
            /\ \/ req[h].status = 204 /\ req[h].child # "none"
               \/ req[h].status = 500 /\ req[h].child = "none"

\* An /open of a directory under the base has been answered 204.
C4_Witness ==
    \E h \in Handlers :
        /\ C4_Case(h)
        /\ req[h].name = <<"s", "ub">>
        /\ req[h].status = 204
        /\ token = "secret"

\* What C5 promises for a request whose name resolves to nothing.
C5_Outcome(h) ==
    /\ req[h].ep = "open" =>
          /\ req[h].status = 404
          /\ Launches(h) = {}
          /\ req[h].child = "none"
    /\ req[h].ep = "test" =>
          /\ req[h].status = 200
          /\ req[h].tpl = "svgTpl"
          /\ req[h].fill = "red"
          /\ req[h].label = req[h].glob

\* C5 as stated: every answered request whose name resolves to a path that
\* does not exist gets 404 from /open and a red badge with status 200,
\* labelled with the glob, from /test.
C5_MissingPath ==
    \A h \in Handlers :
        ( /\ req[h].ep \in {"open", "test"}
          /\ Answered(h)
          /\ Relative(h)
          /\ Stat(Resolved(h)) = "none" ) => C5_Outcome(h)

\* C5 amended: the same, for requests whose token passes.
C5_MissingPathTokenOk ==
    \A h \in Handlers :
        ( /\ req[h].ep \in {"open", "test"}
          /\ Answered(h)
          /\ ~BadToken(h)
          /\ Relative(h)
          /\ Stat(Resolved(h)) = "none" ) => C5_Outcome(h)

\* One handler has answered /open with 404 and the other /test with a red
\* badge carrying a non-empty glob, both for a name that resolves to nothing.
C5_Witness ==
    \E h1, h2 \in Handlers :
        /\ req[h1].ep = "open" /\ req[h1].status = 404
        /\ req[h1].name = <<"nope">>
        /\ req[h2].ep = "test" /\ req[h2].fill = "red"
        /\ req[h2].name = <<"nope">> /\ req[h2].glob # Empty
        /\ token = "secret"

\* The case of C6: /test has answered a request with a passing token whose
\* name resolves to an existing directory.
C6_Case(h) ==
    /\ req[h].ep = "test"
    /\ Answered(h)
    /\ ~BadToken(h)
    /\ Relative(h)
    /\ Stat(Resolved(h)) = "dir"

\* An entry of the resolved directory matches the base name of the glob and
\* does not end in ".txt".
C6_NonTxtMatch(h) ==
    \E n \in ReadDirNames(Resolved(h)) :
        Match(Base(req[h].glob), n) /\ ~HasSuffix(n, TxtExt)

\* The labelled badge that the directory's contents call for.
C6_LabelledBadge(h) ==
    /\ req[h].status = 200
    /\ req[h].tpl = "svgTpl"
    /\ req[h].label = req[h].glob
    /\ req[h].fill = IF C6_NonTxtMatch(h) THEN "green" ELSE "orange"

\* The fixed green badge, without a label.
C6_FixedBadge(h) ==
    /\ req[h].status = 200
    /\ req[h].tpl = "svgFixed"
    /\ req[h].fill = "green"
    /\ req[h].label = Empty

\* C6 as stated: the badge is the fixed green one for an empty glob, and
\* otherwise green with the label when a non-".txt" entry of the directory
\* matches the glob's base name, orange with the label when none does.
C6_Badge ==
    \A h \in Handlers :
        C6_Case(h) =>
            IF req[h].glob = Empty THEN C6_FixedBadge(h)
            ELSE C6_LabelledBadge(h)

\* C6 amended: as stated when the resolved directory's path holds no glob
\* metacharacter and the glob's base name is a well-formed pattern other
\* than ".", ".." and "/"; a malformed pattern is answered 400 "Bad Glob".
C6_BadgeWellFormed ==
    \A h \in Handlers :
        (C6_Case(h) /\ ~HasMeta(Resolved(h))) =>
            IF req[h].glob = Empty THEN C6_FixedBadge(h)
            ELSE IF BadPattern(Base(req[h].glob))
            THEN req[h].status = 400 /\ req[h].msg = "Bad Glob"
            ELSE IF Base(req[h].glob) \in {DotPath, DotDot, RootPath} THEN TRUE
            ELSE C6_LabelledBadge(h)

\* The two handlers have answered the same glob for two directories: green
\* where an entry without ".txt" matches, orange where only a ".txt" does.
C6_Witness ==
    \E h1, h2 \in Handlers :
        /\ C6_Case(h1) /\ C6_Case(h2)
        /\ req[h1].glob = <<"x", SEP, "a", "*">> /\ req[h2].glob = req[h1].glob
        /\ req[h1].name = <<"s", "ub">> /\ req[h1].fill = "green"
        /\ req[h2].name = <<"docs">> /\ req[h2].fill = "orange"

\* C7: the listener runs, and requests are handled, only with a base path
\* that is absolute and an existing directory; after a base path that is
\* none the process has exited and no request is ever handled.
C7_BaseChecked ==
    /\ (phase \in {"ready", "listening"} \/ \E h \in Handlers : Active(h)) =>
          /\ IsAbs(basePath)
          /\ Stat(basePath) = "dir"
    /\ (phase # "boot" /\ Stat(basePath) # "dir") =>
          /\ phase = "exited"
          /\ \A h \in Handlers : ~Active(h)
    /\ (\E h \in Handlers : Active(h)) => phase = "listening"

\* A request has been answered by a server started with a relative -base.
C7_Witness ==
    /\ phase = "listening"
    /\ basePath = <<SEP, "b">>
    /\ \E h \in Handlers : Answered(h) /\ req[h].ops # << >>

\* C8: /open checks the name's presence, then the token, then the name's
\* form, then the path; the first check that fails gives the response, and
\* nothing after it runs.
C8_OpenCheckOrder ==
    \A h \in Handlers :
        (req[h].ep = "open" /\ Active(h)) =>
            IF req[h].name = Empty
            THEN /\ Answered(h) /\ req[h].status = 400
                 /\ req[h].msg = "Missing ?name= parameter"
                 /\ req[h].ops = << >>
            ELSE IF BadToken(h)
            THEN /\ Answered(h) /\ req[h].status = 400
                 /\ req[h].msg = "Invalid Token"
                 /\ req[h].ops = << >>
            ELSE IF IsAbs(req[h].name)
            THEN /\ Answered(h) /\ req[h].status = 400
                 /\ req[h].msg = "Invalid folder/file name"
                 /\ req[h].ops = << >>
            ELSE IF Stat(Resolved(h)) # "dir"
            THEN /\ req[h].pc \in {"stat", "done"}
                 /\ Answered(h) =>
                       /\ req[h].status = 404
                       /\ req[h].ops = <<<<"stat", Resolved(h)>>>>
                 /\ Launches(h) = {}
                 /\ req[h].child = "none"
            ELSE req[h].status \in {0, 204, 500}

\* The three orderings at once: a missing name with a wrong token, and an
\* absolute name that joins to nothing with a wrong token.
C8_Witness ==
    \E h1, h2 \in Handlers :
        /\ req[h1].ep = "open" /\ req[h2].ep = "open"
        /\ req[h1].name = Empty /\ BadToken(h1)
        /\ req[h1].msg = "Missing ?name= parameter"
        /\ req[h2].name = <<SEP, "nope">> /\ BadToken(h2)
        /\ req[h2].msg = "Invalid Token"

\* An /open request whose handler has not answered yet.
C9_InFlight(h) == req[h].ep = "open" /\ Active(h) /\ ~Answered(h)

\* Each /open request is answered once; after a launch the answer is 204
\* exactly when the spawn worked and 500 exactly when it failed, however the
\* program ends.
C9_OneAnswer ==
    \A h \in Handlers :
        req[h].ep = "open" =>
            /\ req[h].writes = IF Answered(h) THEN 1 ELSE 0
            /\ (Answered(h) /\ Launches(h) # {}) =>
                  /\ req[h].status \in {204, 500}
                  /\ req[h].status = 204 <=> req[h].child # "none"
            /\ req[h].status = 500 => Launches(h) # {}

\* C9: the launch does not wait for the program: every /open request is
\* answered, once, even if the program never ends or crashes, with 204 when
\* the spawn worked and 500 only when the spawn failed.
C9_OpenAnswered ==
    /\ []C9_OneAnswer
    /\ \A h \in Handlers : C9_InFlight(h) ~> Answered(h)

\* An /open request has been answered 204 and its program has crashed since.
C9_Witness ==
    \E h \in Handlers :
        /\ req[h].ep = "open"
        /\ Answered(h)
        /\ req[h].status = 204
        /\ req[h].child = "crashed"

\* The request of a handler served alone, start to end, under the current
\* configuration, with the spawn ending as it did.
C10_ServedAlone(r) ==
    LET r0 == [Idle EXCEPT !.ep = r.ep, !.name = r.name, !.glob = r.glob,
                           !.class = r.class, !.givenToken = r.givenToken]
    IN IF r.ep = "open"
       THEN LET a == OpenBeginR(r0, token, basePath)
                b == OpenStatR(a)
            IN IF a.pc = "done" THEN a
               ELSE IF b.pc = "done" THEN b
               ELSE OpenLaunchR(b, r.status # 500)
       ELSE IF r.ep = "test"
       THEN LET a == TestBeginR(r0, token, basePath)
                b == TestStatR(a)
            IN IF a.pc = "done" THEN a
               ELSE IF b.pc = "done" THEN b
               ELSE TestGlobR(b)
       ELSE StyleR(r0, token)

\* C10: once the listener runs no step writes basePath, port or token, and
\* every response, under any interleaving of the two handlers, is the one
\* the request gets when served alone.
C10_ConfigReadOnly ==
    /\ [][phase = "listening" => UNCHANGED <<basePath, port, token>>]_vars
    /\ [](\A h \in Handlers :
            Answered(h) => Response(req[h]) = Response(C10_ServedAlone(req[h])))

\* One handler has answered after touching the file system while the other
\* is between its stat and its glob.
C10_Witness ==
    \E h1, h2 \in Handlers :
        /\ Answered(h1) /\ req[h1].ops # << >>
        /\ req[h2].pc = "glob"

====
